---- MODULE Spec2Model ----
(***************************************************************************)
(* A model of libflashrom.c: the chip probe and its disambiguation, the    *)
(* layout readers (Intel descriptor, fmap) and the write-protection        *)
(* wrappers.  Every call of the API is one action; the record `last`       *)
(* holds the inputs, the result and the trace of calls of the most recent  *)
(* API call, so that a contract of a call is a predicate of the state      *)
(* right after it.                                                         *)
(***************************************************************************)
EXTENDS Integers, Sequences, FiniteSets, TLC

\* ------------------------------------------------------------------ bounds
\* registered masters at most (registered_master_count)
MaxMasters == 2
\* entries of the flashchips table that a probe can match: indices 0..MaxChips-1
MaxChips == 3
\* flash contexts allocated and not yet freed, at most
MaxLive == 2
\* size_t values of a range (start, length): 0..MaxAddr
MaxAddr == 2
\* ranges in a list of available ranges, at most
MaxRanges == 2
\* MAX_ROMLAYOUT of layout.h, scaled down: entries of a layout, at most
MAX_ROMLAYOUT == 3
\* FMAP_STRLEN of fmap.h, scaled down: the width of an area's name field
FMAP_STRLEN == 3
\* areas in an fmap, at most
MaxAreas == 2
\* the width in bits of a chip offset (uint32_t in the source), scaled down
ChipoffBits == 4
\* flash regions in an Intel descriptor
MaxFlregs == 2

VARIABLES
    registered_masters, \* the registry: a sequence of masters, in registration order
    flashctx,           \* the caller's struct flashrom_flashctx *: NULL or the context
    live_ctx,           \* context allocations minus context frees
    wp_cfg,             \* the caller's struct flashrom_wp_cfg *: NULL or the configuration
    wp_list,            \* the caller's struct flashrom_wp_ranges *: NULL or the list
    global_layout,      \* the layout get_global_layout() returns: num_entries, entries[]
    layout,             \* the caller's struct flashrom_layout *: NULL or what it points to
    little_endian,      \* whether the build defines __FLASHROM_LITTLE_ENDIAN__
    last                \* the most recent API call: inputs, result, trace

probe_vars == <<registered_masters, flashctx, live_ctx>>
wp_vars == <<wp_cfg, wp_list>>
layout_vars == <<global_layout, layout, little_endian>>
vars == <<registered_masters, flashctx, live_ctx, wp_cfg, wp_list, global_layout, layout,
          little_endian, last>>

\* The null pointer; an object pointed to is the record of its fields.
NULL == [null |-> TRUE]

\* ------------------------------------------------------------ flash chips
BUS_SPI == "SPI"
BUS_PARALLEL == "PARALLEL"

\* The sets of buses a master may declare (buses_supported), as sets of bus names:
\* x & BUS_SPI is BUS_SPI \in x.
BusSets == {{BUS_SPI}, {BUS_PARALLEL}, {BUS_SPI, BUS_PARALLEL}}

\* The chip table: entry c declares total_size in KiB.
flashchips == [c \in 0..(MaxChips - 1) |-> [id |-> c, total_size |-> 512 * (c + 1)]]

\* A registered master: the buses it supports and the chip-table indices at which
\* a probe through it matches.
Masters == [buses_supported : BusSets, found : SUBSET (0..(MaxChips - 1))]

\* memset(*flashctx, 0, sizeof(**flashctx))
ZeroCtx == [chip |-> NULL, mst |-> NULL]

\* probe_flash(mst, startchip, flash, force), mst being &registered_masters[mst-1]:
\* the index of the first chip at or after startchip that matches on the master,
\* with the chip and the master recorded in flash; -1 and no chip in flash if
\* there is none.
probe_flash(masters, mst, startchip, flash) ==
    LET hits == {c \in masters[mst].found : c >= startchip}
    IN IF hits = {}
       THEN [idx |-> -1, flash |-> [flash EXCEPT !.chip = NULL]]
       ELSE LET c == CHOOSE x \in hits : \A y \in hits : x <= y
            IN [idx |-> c, flash |-> [chip |-> flashchips[c], mst |-> mst]]

\* A loop that stops scanning once the first master has been checked for a
\* second match: later masters are never probed.
RECURSIVE probe_loop_first_master_only(_, _, _, _)
probe_loop_first_master_only(masters, i, ret, ctx) ==
    IF i > Len(masters) \/ ret = 0
    THEN [ret |-> ret, ctx |-> ctx]
    ELSE LET first == probe_flash(masters, i, 0, ctx)
         IN IF first.idx = -1
            THEN probe_loop_first_master_only(masters, i + 1, ret, first.flash)
            ELSE IF probe_flash(masters, i, first.idx + 1, ZeroCtx).idx # -1
                 THEN [ret |-> 3, ctx |-> first.flash]
                 ELSE probe_loop_first_master_only(masters, i + 1, 0, first.flash)

\* for (i = 0; i < registered_master_count; ++i) { ... }: the state after the
\* loop, entered at master i (1-based here) with ret and *flashctx as given.
\* With ret = 0 the || short-circuits: the master is not probed into *flashctx,
\* flash_idx stays -1 and the second probe starts at index 0.
RECURSIVE probe_loop(_, _, _, _)
probe_loop(masters, i, ret, ctx) ==
    IF i > Len(masters)
    THEN [ret |-> ret, ctx |-> ctx]
    ELSE LET first == IF ret = 0
                      THEN [idx |-> -1, flash |-> ctx]
                      ELSE probe_flash(masters, i, 0, ctx)
         IN IF ~(ret = 0 \/ first.idx # -1)
            THEN probe_loop(masters, i + 1, ret, first.flash)
            ELSE IF probe_flash(masters, i, first.idx + 1, ZeroCtx).idx # -1
                 THEN [ret |-> 3, ctx |-> first.flash]
                 ELSE probe_loop(masters, i + 1, 0, first.flash)

\* An exit without the if (ret) block: the context is neither freed nor is
\* *flashctx reset.
probe_exit_no_free(looped) ==
    [ret |-> looped.ret, flashctx |-> looped.ctx, frees |-> 0]

\* if (ret) { free(*flashctx); *flashctx = NULL; } return ret;
probe_exit(looped) ==
    IF looped.ret # 0
    THEN [ret |-> looped.ret, flashctx |-> NULL, frees |-> 1]
    ELSE [ret |-> 0, flashctx |-> looped.ctx, frees |-> 0]

\* A probe that starts from int ret = 0 instead of ret = 2.
flashrom_flash_probe_ret_init_0(masters, alloc_ok) ==
    IF ~alloc_ok
    THEN [ret |-> 1, flashctx |-> NULL, mallocs |-> 0, frees |-> 0]
    ELSE LET out == probe_exit(probe_loop(masters, 1, 0, ZeroCtx))
         IN [ret |-> out.ret, flashctx |-> out.flashctx,
             mallocs |-> 1, frees |-> out.frees]

\* flashrom_flash_probe on the registry `masters`; alloc_ok is whether malloc
\* answers.  The result, the value left in *flashctx, and the allocations and
\* frees the call made.
flashrom_flash_probe_fn(masters, alloc_ok) ==
    IF ~alloc_ok
    THEN [ret |-> 1, flashctx |-> NULL, mallocs |-> 0, frees |-> 0]
    ELSE LET out == probe_exit(probe_loop(masters, 1, 2, ZeroCtx))
         IN [ret |-> out.ret, flashctx |-> out.flashctx,
             mallocs |-> 1, frees |-> out.frees]

\* size_t flashrom_flash_getsize: total_size * 1024 (total_size is in KiB; the
\* product of a chip-table size stays far below the width of the arithmetic)
flashrom_flash_getsize_fn(ctx) == ctx.chip.total_size * 1024

\* A romentry never written: the global layout is static storage.
ZeroEntry == [start |-> 0, end |-> 0, included |-> FALSE, name |-> NULL]
EmptyGlobalLayout ==
    [num_entries |-> 0, entries |-> [i \in 1..MAX_ROMLAYOUT |-> ZeroEntry]]

\* ----------------------------------------------------------------- state
Init ==
    /\ registered_masters = <<>>
    /\ flashctx = NULL
    /\ live_ctx = 0
    /\ wp_cfg = NULL
    /\ wp_list = NULL
    /\ global_layout = EmptyGlobalLayout
    /\ layout = NULL
    /\ little_endian \in BOOLEAN
    /\ last = [op |-> "none"]

\* The masters registered in the runs of the probe: the buses play no part in
\* flashrom_flash_probe, the matches do.
ProbeMasters == {m \in Masters : m.buses_supported = {BUS_SPI}}

\* flashrom_programmer_init: an unknown prog_name returns 1; otherwise
\* programmer_init runs, and the programmer's init registers its master.
flashrom_programmer_init ==
    /\ \/ /\ Len(registered_masters) < MaxMasters
          /\ \E m \in ProbeMasters :
                /\ registered_masters' = Append(registered_masters, m)
                /\ last' = [op |-> "programmer_init", ret |-> 0]
       \/ /\ registered_masters' = registered_masters
          /\ last' = [op |-> "programmer_init", ret |-> 1]
    /\ UNCHANGED <<flashctx, live_ctx, wp_vars, layout_vars>>

\* flashrom_programmer_shutdown: the registry is emptied.
flashrom_programmer_shutdown ==
    /\ registered_masters # <<>>
    /\ registered_masters' = <<>>
    /\ last' = [op |-> "programmer_shutdown", ret |-> 0]
    /\ UNCHANGED <<flashctx, live_ctx, wp_vars, layout_vars>>

flashrom_flash_probe ==
    \E alloc_ok \in BOOLEAN :
        /\ alloc_ok => live_ctx < MaxLive
        /\ LET r == flashrom_flash_probe_fn(registered_masters, alloc_ok)
           IN /\ flashctx' = r.flashctx
              /\ live_ctx' = live_ctx + r.mallocs - r.frees
              /\ last' = [op |-> "flash_probe", ret |-> r.ret, alloc_ok |-> alloc_ok,
                          live_before |-> live_ctx]
        /\ UNCHANGED <<registered_masters, wp_vars, layout_vars>>

flashrom_flash_getsize ==
    /\ flashctx # NULL
    /\ last' = [op |-> "flash_getsize", ret |-> flashrom_flash_getsize_fn(flashctx)]
    /\ UNCHANGED <<probe_vars, wp_vars, layout_vars>>

\* flashrom_flash_release: free(flashctx); the caller drops its pointer.
flashrom_flash_release ==
    /\ flashctx # NULL
    /\ flashctx' = NULL
    /\ live_ctx' = live_ctx - 1
    /\ last' = [op |-> "flash_release"]
    /\ UNCHANGED <<registered_masters, wp_vars, layout_vars>>

NextProbe ==
    \/ flashrom_programmer_init
    \/ flashrom_programmer_shutdown
    \/ flashrom_flash_probe
    \/ flashrom_flash_getsize
    \/ flashrom_flash_release

SpecProbe == Init /\ [][NextProbe]_vars


\* ------------------------------------------------------ write protection
\* enum flashrom_wp_result
FLASHROM_WP_OK == 0
FLASHROM_WP_ERR_CHIP_UNSUPPORTED == 1
FLASHROM_WP_ERR_OTHER == 2
\* The answers of the chip layer that the runs draw from.
HwResults == {FLASHROM_WP_OK, FLASHROM_WP_ERR_CHIP_UNSUPPORTED, FLASHROM_WP_ERR_OTHER}

\* enum flashrom_wp_mode
FLASHROM_WP_MODE_DISABLED == 0
FLASHROM_WP_MODE_PERMANENT == 3
WpModes == FLASHROM_WP_MODE_DISABLED..FLASHROM_WP_MODE_PERMANENT

SizeVals == 0..MaxAddr
WpRange == [start : SizeVals, len : SizeVals]
WpCfgs == [mode : WpModes, range : WpRange]

\* The configurations the chip is found in, in the runs.
HwCfgs == {c \in WpCfgs : /\ c.mode \in {1, FLASHROM_WP_MODE_PERMANENT}
                          /\ c.range.start \in {0, MaxAddr}
                          /\ c.range.len = MaxAddr - c.range.start}

\* calloc(1, sizeof(**cfg)): every field zero
ZeroCfg == [mode |-> 0, range |-> [start |-> 0, len |-> 0]]

\* The range lists the chip layer hands out: n ranges, pairwise different, in
\* one of two variants.
HwRangeList(n, v) ==
    [count |-> n,
     ranges |-> [i \in 1..n |-> [start |-> (i - 1 + v) % (MaxAddr + 1),
                                 len |-> (n - i) % (MaxAddr + 1)]]]
HwRangeLists == {HwRangeList(n, v) : n \in 0..MaxRanges, v \in 0..1}

\* A flash context as the write-protection calls read it: flash->mst->buses_supported.
WpFlashes == [buses_supported : BusSets]

\* flashrom_wp_cfg_new: *cfg = calloc(...); 0 or FLASHROM_WP_ERR_OTHER
flashrom_wp_cfg_new_fn(alloc_ok) ==
    IF alloc_ok
    THEN [ret |-> FLASHROM_WP_OK, cfg |-> ZeroCfg]
    ELSE [ret |-> FLASHROM_WP_ERR_OTHER, cfg |-> NULL]

\* flashrom_wp_set_mode: cfg->mode = mode
flashrom_wp_set_mode_fn(cfg, mode) == [cfg EXCEPT !.mode = mode]

\* flashrom_wp_get_mode: cfg->mode
flashrom_wp_get_mode_fn(cfg) == cfg.mode

\* A set_range that stores the length in both fields.
flashrom_wp_set_range_len_twice(cfg, start, len) ==
    [cfg EXCEPT !.range = [start |-> len, len |-> len]]

\* flashrom_wp_set_range: cfg->range.start = start; cfg->range.len = len
flashrom_wp_set_range_fn(cfg, start, len) ==
    [cfg EXCEPT !.range = [start |-> start, len |-> len]]

\* flashrom_wp_get_range: *start = cfg->range.start; *len = cfg->range.len
flashrom_wp_get_range_fn(cfg) == [start |-> cfg.range.start, len |-> cfg.range.len]

\* wp_write_cfg(flash, cfg) of the chip layer: it reaches the chip through the
\* master and answers hw_ret.
wp_write_cfg(flash, cfg, hw_ret) ==
    [ret |-> hw_ret, calls |-> <<"wp_write_cfg">>]

\* wp_read_cfg(cfg, flash) of the chip layer: on success *cfg is the chip's
\* configuration hw_cfg.
wp_read_cfg(cfg, flash, hw_ret, hw_cfg) ==
    [ret |-> hw_ret, calls |-> <<"wp_read_cfg">>,
     cfg |-> IF hw_ret = FLASHROM_WP_OK THEN hw_cfg ELSE cfg]

\* wp_get_available_ranges(list, flash) of the chip layer: on success *list is
\* a new list hw_list.
wp_get_available_ranges(list, flash, hw_ret, hw_list) ==
    [ret |-> hw_ret, calls |-> <<"wp_get_available_ranges">>,
     list |-> IF hw_ret = FLASHROM_WP_OK THEN hw_list ELSE list]

\* flashrom_wp_write_cfg
flashrom_wp_write_cfg_fn(flash, cfg, hw_ret) ==
    IF BUS_SPI \in flash.buses_supported
    THEN wp_write_cfg(flash, cfg, hw_ret)
    ELSE [ret |-> FLASHROM_WP_ERR_OTHER, calls |-> <<>>]

\* A read_cfg without the bus gate.
flashrom_wp_read_cfg_ungated(cfg, flash, hw_ret, hw_cfg) ==
    wp_read_cfg(cfg, flash, hw_ret, hw_cfg)

\* flashrom_wp_read_cfg
flashrom_wp_read_cfg_fn(cfg, flash, hw_ret, hw_cfg) ==
    IF BUS_SPI \in flash.buses_supported
    THEN wp_read_cfg(cfg, flash, hw_ret, hw_cfg)
    ELSE [ret |-> FLASHROM_WP_ERR_OTHER, calls |-> <<>>, cfg |-> cfg]

\* flashrom_wp_get_available_ranges
flashrom_wp_get_available_ranges_fn(list, flash, hw_ret, hw_list) ==
    IF BUS_SPI \in flash.buses_supported
    THEN wp_get_available_ranges(list, flash, hw_ret, hw_list)
    ELSE [ret |-> FLASHROM_WP_ERR_OTHER, calls |-> <<>>, list |-> list]

\* flashrom_wp_ranges_get_count: list->count
flashrom_wp_ranges_get_count_fn(list) == list.count

\* What a load past the end of list->ranges yields in the runs.
Beyond == [start |-> MaxAddr, len |-> MaxAddr]

\* list->ranges[index]
load_range(list, index) ==
    IF index < list.count THEN list.ranges[index + 1] ELSE Beyond

\* A get_range that rejects with index > list->count.
flashrom_wp_ranges_get_range_off_by_one(start, len, list, index) ==
    IF index > list.count
    THEN [ret |-> FLASHROM_WP_ERR_OTHER, start |-> start, len |-> len, loads |-> <<>>]
    ELSE [ret |-> FLASHROM_WP_OK,
          start |-> load_range(list, index).start,
          len |-> load_range(list, index).len,
          loads |-> <<index>>]

\* flashrom_wp_ranges_get_range: start and len are *start and *len before the
\* call; the result, *start and *len after it, and the indices of list->ranges
\* it loaded.
flashrom_wp_ranges_get_range_fn(start, len, list, index) ==
    IF index >= list.count
    THEN [ret |-> FLASHROM_WP_ERR_OTHER, start |-> start, len |-> len, loads |-> <<>>]
    ELSE [ret |-> FLASHROM_WP_OK,
          start |-> load_range(list, index).start,
          len |-> load_range(list, index).len,
          loads |-> <<index>>]

flashrom_wp_cfg_new ==
    /\ \E alloc_ok \in BOOLEAN :
          LET r == flashrom_wp_cfg_new_fn(alloc_ok)
          IN /\ wp_cfg' = r.cfg
             /\ last' = [op |-> "wp_cfg_new", ret |-> r.ret]
    /\ UNCHANGED <<probe_vars, wp_list, layout_vars>>

\* flashrom_wp_cfg_release: free(cfg); the caller drops its pointer.
flashrom_wp_cfg_release ==
    /\ wp_cfg # NULL
    /\ wp_cfg' = NULL
    /\ last' = [op |-> "wp_cfg_release"]
    /\ UNCHANGED <<probe_vars, wp_list, layout_vars>>

flashrom_wp_set_mode ==
    /\ wp_cfg # NULL
    /\ \E mode \in WpModes :
          /\ wp_cfg' = flashrom_wp_set_mode_fn(wp_cfg, mode)
          /\ last' = [op |-> "wp_set_mode", mode |-> mode, cfg_before |-> wp_cfg]
    /\ UNCHANGED <<probe_vars, wp_list, layout_vars>>

flashrom_wp_get_mode ==
    /\ wp_cfg # NULL
    /\ last' = [op |-> "wp_get_mode", ret |-> flashrom_wp_get_mode_fn(wp_cfg)]
    /\ UNCHANGED <<probe_vars, wp_vars, layout_vars>>

flashrom_wp_set_range ==
    /\ wp_cfg # NULL
    /\ \E start \in SizeVals, len \in SizeVals :
          /\ wp_cfg' = flashrom_wp_set_range_fn(wp_cfg, start, len)
          /\ last' = [op |-> "wp_set_range", start |-> start, len |-> len,
                      cfg_before |-> wp_cfg]
    /\ UNCHANGED <<probe_vars, wp_list, layout_vars>>

\* flashrom_wp_get_range, called right after a flashrom_wp_set_range or at any
\* other time: `set` is the (start, len) last given to flashrom_wp_set_range on
\* this configuration, if the previous call was that.
flashrom_wp_get_range ==
    /\ wp_cfg # NULL
    /\ LET r == flashrom_wp_get_range_fn(wp_cfg)
       IN last' = [op |-> "wp_get_range", start |-> r.start, len |-> r.len,
                   after_set |-> last.op = "wp_set_range",
                   set |-> IF last.op = "wp_set_range"
                           THEN [start |-> last.start, len |-> last.len]
                           ELSE NULL]
    /\ UNCHANGED <<probe_vars, wp_vars, layout_vars>>

flashrom_wp_write_cfg ==
    /\ wp_cfg # NULL
    /\ \E flash \in WpFlashes, hw_ret \in HwResults :
          LET r == flashrom_wp_write_cfg_fn(flash, wp_cfg, hw_ret)
          IN last' = [op |-> "wp_write_cfg", ret |-> r.ret, calls |-> r.calls,
                      flash |-> flash, cfg_before |-> wp_cfg, list_before |-> wp_list]
    /\ UNCHANGED <<probe_vars, wp_vars, layout_vars>>

flashrom_wp_read_cfg ==
    /\ wp_cfg # NULL
    /\ \E flash \in WpFlashes, hw_ret \in HwResults, hw_cfg \in HwCfgs :
          LET r == flashrom_wp_read_cfg_fn(wp_cfg, flash, hw_ret, hw_cfg)
          IN /\ wp_cfg' = r.cfg
             /\ last' = [op |-> "wp_read_cfg", ret |-> r.ret, calls |-> r.calls,
                         flash |-> flash, cfg_before |-> wp_cfg, list_before |-> wp_list]
    /\ UNCHANGED <<probe_vars, wp_list, layout_vars>>

flashrom_wp_get_available_ranges ==
    /\ \E flash \in WpFlashes, hw_ret \in HwResults, hw_list \in HwRangeLists :
          LET r == flashrom_wp_get_available_ranges_fn(wp_list, flash, hw_ret, hw_list)
          IN /\ wp_list' = r.list
             /\ last' = [op |-> "wp_get_available_ranges", ret |-> r.ret,
                         calls |-> r.calls, flash |-> flash,
                         cfg_before |-> wp_cfg, list_before |-> wp_list]
    /\ UNCHANGED <<probe_vars, wp_cfg, layout_vars>>

flashrom_wp_ranges_get_count ==
    /\ wp_list # NULL
    /\ last' = [op |-> "wp_ranges_get_count", ret |-> flashrom_wp_ranges_get_count_fn(wp_list)]
    /\ UNCHANGED <<probe_vars, wp_vars, layout_vars>>

\* flashrom_wp_ranges_get_range: *start and *len hold start0 and len0 before
\* the call.
flashrom_wp_ranges_get_range ==
    /\ wp_list # NULL
    /\ \E index \in 0..(MaxRanges + 1), start0 \in {0, MaxAddr}, len0 \in {0, MaxAddr} :
          LET r == flashrom_wp_ranges_get_range_fn(start0, len0, wp_list, index)
          IN last' = [op |-> "wp_ranges_get_range", ret |-> r.ret, index |-> index,
                      start_before |-> start0, len_before |-> len0,
                      start |-> r.start, len |-> r.len, loads |-> r.loads]
    /\ UNCHANGED <<probe_vars, wp_vars, layout_vars>>

\* flashrom_wp_ranges_release: free(list->ranges); free(list); nothing on NULL.
flashrom_wp_ranges_release ==
    /\ wp_list' = NULL
    /\ last' = [op |-> "wp_ranges_release"]
    /\ UNCHANGED <<probe_vars, wp_cfg, layout_vars>>

NextWp ==
    \/ flashrom_wp_cfg_new
    \/ flashrom_wp_cfg_release
    \/ flashrom_wp_set_mode
    \/ flashrom_wp_get_mode
    \/ flashrom_wp_set_range
    \/ flashrom_wp_get_range
    \/ flashrom_wp_write_cfg
    \/ flashrom_wp_read_cfg
    \/ flashrom_wp_get_available_ranges
    \/ flashrom_wp_ranges_get_count
    \/ flashrom_wp_ranges_get_range
    \/ flashrom_wp_ranges_release

SpecWp == Init /\ [][NextWp]_vars


\* ------------------------------------------------------------ layout: fmap
\* Arithmetic on chip offsets is unsigned and wraps at the width of the type.
ChipoffModulus == 2 ^ ChipoffBits

\* The name field of an fmap area: FMAP_STRLEN bytes, not necessarily
\* terminated; 0 is the NUL byte.
NameField(c, k, tail) ==
    [i \in 1..FMAP_STRLEN |-> IF i <= k THEN c ELSE IF i = k + 1 THEN 0 ELSE tail]

\* The areas the runs draw from: an empty area at offset 0 whose name is
\* terminated and followed by other bytes, and an area whose name fills the field.
FmapAreas ==
    {[offset |-> 0, size |-> 0, name |-> NameField(1, 1, 2)],
     [offset |-> 4, size |-> 4, name |-> NameField(2, FMAP_STRLEN, 0)]}

\* struct fmap as the codec hands it out: nareas and areas[].
Fmaps ==
    UNION {{[nareas |-> n, areas |-> a] : a \in [1..n -> FmapAreas]} : n \in 0..MaxAreas}

\* strndup(s, n): the bytes of s before the first NUL, n of them at most.
RECURSIVE strndup_from(_, _, _)
strndup_from(s, i, n) ==
    IF i > n \/ i > Len(s) \/ s[i] = 0
    THEN <<>>
    ELSE <<s[i]>> \o strndup_from(s, i + 1, n)
strndup(s, n) == [str |-> strndup_from(s, 1, n)]

\* A loop that checks the room left before each area instead of once for the
\* whole fmap.
RECURSIVE parse_fmap_loop_check_per_area(_, _, _, _)
parse_fmap_loop_check_per_area(l, fmap, i, fail_at) ==
    IF i > fmap.nareas
    THEN [ret |-> 0, l |-> l, slots |-> <<>>]
    ELSE IF l.num_entries + 1 > MAX_ROMLAYOUT
    THEN [ret |-> 1, l |-> l, slots |-> <<>>]
    ELSE LET area == fmap.areas[i]
             name == IF i = fail_at THEN NULL ELSE strndup(area.name, FMAP_STRLEN)
             written ==
                 [l EXCEPT !.entries[l.num_entries + 1] =
                     [start |-> area.offset,
                      end |-> (area.offset + area.size - 1) % ChipoffModulus,
                      included |-> FALSE,
                      name |-> name]]
         IN IF name = NULL
            THEN [ret |-> 1, l |-> written, slots |-> <<l.num_entries>>]
            ELSE LET rest == parse_fmap_loop_check_per_area(
                                 [written EXCEPT !.num_entries = @ + 1],
                                 fmap, i + 1, fail_at)
                 IN [rest EXCEPT !.slots = <<l.num_entries>> \o @]

\* A loop that takes the end of a region to be the offset after its last byte.
RECURSIVE parse_fmap_loop_end_exclusive(_, _, _, _)
parse_fmap_loop_end_exclusive(l, fmap, i, fail_at) ==
    IF i > fmap.nareas
    THEN [ret |-> 0, l |-> l, slots |-> <<>>]
    ELSE LET area == fmap.areas[i]
             name == IF i = fail_at THEN NULL ELSE strndup(area.name, FMAP_STRLEN)
             written ==
                 [l EXCEPT !.entries[l.num_entries + 1] =
                     [start |-> area.offset,
                      end |-> (area.offset + area.size) % ChipoffModulus,
                      included |-> FALSE,
                      name |-> name]]
         IN IF name = NULL
            THEN [ret |-> 1, l |-> written, slots |-> <<l.num_entries>>]
            ELSE LET rest == parse_fmap_loop_end_exclusive(
                                 [written EXCEPT !.num_entries = @ + 1],
                                 fmap, i + 1, fail_at)
                 IN [rest EXCEPT !.slots = <<l.num_entries>> \o @]

\* for (i = 0; i < fmap->nareas; i++) { ... }: area i (1-based here) is written
\* to the slot entries[num_entries]; strndup answers NULL at area fail_at (0:
\* never), and the loop returns 1 with the slot written and not counted.
\* slots are the indices (from 0, as in the code) of the slots written, in order.
RECURSIVE parse_fmap_loop(_, _, _, _)
parse_fmap_loop(l, fmap, i, fail_at) ==
    IF i > fmap.nareas
    THEN [ret |-> 0, l |-> l, slots |-> <<>>]
    ELSE LET area == fmap.areas[i]
             name == IF i = fail_at THEN NULL ELSE strndup(area.name, FMAP_STRLEN)
             written ==
                 [l EXCEPT !.entries[l.num_entries + 1] =
                     [start |-> area.offset,
                      end |-> (area.offset + area.size - 1) % ChipoffModulus,
                      included |-> FALSE,
                      name |-> name]]
         IN IF name = NULL
            THEN [ret |-> 1, l |-> written, slots |-> <<l.num_entries>>]
            ELSE LET rest == parse_fmap_loop(
                                 [written EXCEPT !.num_entries = @ + 1],
                                 fmap, i + 1, fail_at)
                 IN [rest EXCEPT !.slots = <<l.num_entries>> \o @]

\* What *layout points to after *layout = l.
GlobalLayoutRef == [ref |-> "global_layout"]

\* A parse without the check of the whole fmap: the room is checked area by area.
flashrom_layout_parse_fmap_check_per_area(out, l, fmap, fail_at) ==
    IF fmap = NULL
    THEN [ret |-> 1, l |-> l, layout |-> out, slots |-> <<>>]
    ELSE LET looped == parse_fmap_loop_check_per_area(l, fmap, 1, fail_at)
         IN IF looped.ret # 0
            THEN [ret |-> 1, l |-> looped.l, layout |-> out, slots |-> looped.slots]
            ELSE [ret |-> 0, l |-> looped.l, layout |-> GlobalLayoutRef,
                  slots |-> looped.slots]

\* A parse whose room check lets through one area more than there is room for.
flashrom_layout_parse_fmap_room_off_by_one(out, l, fmap, fail_at) ==
    IF fmap = NULL
    THEN [ret |-> 1, l |-> l, layout |-> out, slots |-> <<>>]
    ELSE IF l.num_entries + fmap.nareas > MAX_ROMLAYOUT + 1
    THEN [ret |-> 1, l |-> l, layout |-> out, slots |-> <<>>]
    ELSE LET looped == parse_fmap_loop(l, fmap, 1, fail_at)
         IN IF looped.ret # 0
            THEN [ret |-> 1, l |-> looped.l, layout |-> out, slots |-> looped.slots]
            ELSE [ret |-> 0, l |-> looped.l, layout |-> GlobalLayoutRef,
                  slots |-> looped.slots]

\* flashrom_layout_parse_fmap(layout, flashctx, fmap) on the global layout l,
\* *layout being out before the call: the result, the global layout and
\* *layout after it.
flashrom_layout_parse_fmap(out, l, fmap, fail_at) ==
    IF fmap = NULL
    THEN [ret |-> 1, l |-> l, layout |-> out, slots |-> <<>>]
    ELSE IF l.num_entries + fmap.nareas > MAX_ROMLAYOUT
    THEN [ret |-> 1, l |-> l, layout |-> out, slots |-> <<>>]
    ELSE LET looped == parse_fmap_loop(l, fmap, 1, fail_at)
         IN IF looped.ret # 0
            THEN [ret |-> 1, l |-> looped.l, layout |-> out, slots |-> looped.slots]
            ELSE [ret |-> 0, l |-> looped.l, layout |-> GlobalLayoutRef,
                  slots |-> looped.slots]

\* fmap_read_from_rom(&fmap, flashctx, offset, len) of the fmap codec: 0 and the
\* fmap found on the chip, or a failure and no fmap (rom_fmap = NULL).
fmap_read_from_rom(rom_fmap) ==
    IF rom_fmap # NULL THEN [ret |-> 0, fmap |-> rom_fmap] ELSE [ret |-> 1, fmap |-> NULL]

\* fmap_read_from_buffer(&fmap, buf, size) of the fmap codec, likewise.
fmap_read_from_buffer(buf_fmap) ==
    IF buf_fmap # NULL THEN [ret |-> 0, fmap |-> buf_fmap] ELSE [ret |-> 1, fmap |-> NULL]

\* flashrom_layout_read_fmap_from_rom; le is whether the build defines
\* __FLASHROM_LITTLE_ENDIAN__.
flashrom_layout_read_fmap_from_rom_fn(out, l, le, rom_fmap, fail_at) ==
    IF ~le
    THEN [ret |-> 3, l |-> l, layout |-> out, slots |-> <<>>]
    ELSE LET read == fmap_read_from_rom(rom_fmap)
         IN IF read.ret # 0
            THEN [ret |-> 1, l |-> l, layout |-> out, slots |-> <<>>]
            ELSE LET parsed == flashrom_layout_parse_fmap(out, l, read.fmap, fail_at)
                 IN [ret |-> IF parsed.ret # 0 THEN 1 ELSE 0,
                     l |-> parsed.l, layout |-> parsed.layout, slots |-> parsed.slots]

\* flashrom_layout_read_fmap_from_buffer; buf_ok is buf && size.
flashrom_layout_read_fmap_from_buffer_fn(out, l, le, buf_ok, buf_fmap, fail_at) ==
    IF ~le
    THEN [ret |-> 3, l |-> l, layout |-> out, slots |-> <<>>]
    ELSE IF ~buf_ok
    THEN [ret |-> 1, l |-> l, layout |-> out, slots |-> <<>>]
    ELSE LET read == fmap_read_from_buffer(buf_fmap)
         IN IF read.ret # 0
            THEN [ret |-> 1, l |-> l, layout |-> out, slots |-> <<>>]
            ELSE LET parsed == flashrom_layout_parse_fmap(out, l, read.fmap, fail_at)
                 IN [ret |-> IF parsed.ret # 0 THEN 1 ELSE 0,
                     l |-> parsed.l, layout |-> parsed.layout, slots |-> parsed.slots]

\* The points at which strndup may answer NULL while the areas of fmap are
\* read: at one of its areas, or never (0).
FailPoints(fmap) == IF fmap = NULL THEN {0} ELSE 0..fmap.nareas

\* flashrom_layout_read_fmap_from_rom: the chip holds the fmap rom_fmap, or none
\* that can be read (NULL).
flashrom_layout_read_fmap_from_rom ==
    /\ \E rom_fmap \in Fmaps \cup {NULL} :
       \E fail_at \in FailPoints(rom_fmap) :
          LET r == flashrom_layout_read_fmap_from_rom_fn(
                       layout, global_layout, little_endian, rom_fmap, fail_at)
          IN /\ global_layout' = r.l
             /\ layout' = r.layout
             /\ last' = [op |-> "layout_read_fmap_from_rom", ret |-> r.ret,
                         fmap |-> rom_fmap, fail_at |-> fail_at,
                         global_before |-> global_layout, layout_before |-> layout,
                         slots |-> r.slots]
    /\ UNCHANGED <<probe_vars, wp_vars, little_endian>>

\* flashrom_layout_read_fmap_from_buffer: the buffer holds the fmap buf_fmap, or
\* none (NULL); without a buffer (buf NULL or size 0) nothing is read.
flashrom_layout_read_fmap_from_buffer ==
    /\ \E buf_ok \in BOOLEAN :
       \E buf_fmap \in (IF buf_ok THEN Fmaps ELSE {}) \cup {NULL} :
       \E fail_at \in FailPoints(buf_fmap) :
          LET r == flashrom_layout_read_fmap_from_buffer_fn(
                       layout, global_layout, little_endian, buf_ok, buf_fmap, fail_at)
          IN /\ global_layout' = r.l
             /\ layout' = r.layout
             /\ last' = [op |-> "layout_read_fmap_from_buffer", ret |-> r.ret,
                         buf_ok |-> buf_ok, fmap |-> buf_fmap, fail_at |-> fail_at,
                         global_before |-> global_layout, layout_before |-> layout,
                         slots |-> r.slots]
    /\ UNCHANGED <<probe_vars, wp_vars, little_endian>>

NextLayout ==
    \/ flashrom_layout_read_fmap_from_rom
    \/ flashrom_layout_read_fmap_from_buffer

SpecLayout == Init /\ [][NextLayout]_vars


\* ----------------------------------------------- layout: Intel descriptor
\* A flash region register of a descriptor: a region with limit <= base is unused.
Flregs == {[base |-> 0, limit |-> 3], [base |-> 3, limit |-> 0]}

\* The descriptor images of the runs: a valid signature and MaxFlregs region
\* registers, or one image without a valid signature.
DescImages ==
    {[sig_ok |-> TRUE, flregs |-> f] : f \in [1..MaxFlregs -> Flregs]}
        \cup {[sig_ok |-> FALSE, flregs |-> [i \in 1..MaxFlregs |-> [base |-> 0, limit |-> 3]]]}

\* A descriptor dump handed in by the caller: an image and whether len covers it.
Dumps ==
    {[image |-> d, len_ok |-> TRUE] : d \in DescImages}
        \cup {[image |-> [sig_ok |-> TRUE,
                          flregs |-> [i \in 1..MaxFlregs |-> [base |-> 0, limit |-> 3]]],
               len_ok |-> FALSE]}

\* The entries of the used regions among flregs[i..], in order; each is named
\* after the index of its region register.
RECURSIVE ich_entries(_, _)
ich_entries(flregs, i) ==
    IF i > Len(flregs)
    THEN <<>>
    ELSE IF flregs[i].limit <= flregs[i].base
    THEN ich_entries(flregs, i + 1)
    ELSE <<[start |-> flregs[i].base, end |-> flregs[i].limit,
            included |-> FALSE, name |-> [region |-> i]]>>
             \o ich_entries(flregs, i + 1)

\* layout_from_ich_descriptors(layout, dump, len) of the descriptor codec:
\* non-zero if the image cannot be parsed, else 0 and the layout of its used
\* regions.
layout_from_ich_descriptors(image, len_ok) ==
    IF ~len_ok \/ ~image.sig_ok
    THEN [ret |-> 1, layout |-> NULL]
    ELSE LET e == ich_entries(image.flregs, 1)
         IN [ret |-> 0, layout |-> [num_entries |-> Len(e), entries |-> e]]

\* The steps between the two labels with the dump parsed before the chip's
\* descriptor.
ifd_read_parse_compare_dump_first(chip_desc, dump) ==
    IF chip_desc = NULL
    THEN [ret |-> 2, chip_layout |-> NULL, trace |-> <<"read">>]
    ELSE LET chip == layout_from_ich_descriptors(chip_desc, TRUE)
             ref == IF dump = NULL THEN [ret |-> 0, layout |-> NULL]
                    ELSE layout_from_ich_descriptors(dump.image, dump.len_ok)
         IN IF dump # NULL /\ ref.ret # 0
            THEN [ret |-> 4, chip_layout |-> NULL, trace |-> <<"read", "parse dump">>]
            ELSE IF chip.ret # 0
            THEN [ret |-> 3, chip_layout |-> NULL,
                  trace |-> <<"read">> \o (IF dump = NULL THEN <<>> ELSE <<"parse dump">>)
                                \o <<"parse chip">>]
            ELSE IF dump = NULL
            THEN [ret |-> 0, chip_layout |-> chip.layout, trace |-> <<"read", "parse chip">>]
            ELSE IF chip.layout.num_entries # ref.layout.num_entries
                        \/ chip.layout.entries # ref.layout.entries
            THEN [ret |-> 5, chip_layout |-> chip.layout,
                  trace |-> <<"read", "parse dump", "parse chip", "compare">>]
            ELSE [ret |-> 0, chip_layout |-> chip.layout,
                  trace |-> <<"read", "parse dump", "parse chip", "compare">>]

\* From msg_cinfo("Reading ich descriptor... ") to ret = 0: the chip read (it
\* fails when chip_desc = NULL, else desc holds chip_desc), the parse of desc,
\* and with a dump its parse and the comparison.  The result, the chip layout
\* and the calls made.
ifd_read_parse_compare(chip_desc, dump) ==
    IF chip_desc = NULL
    THEN [ret |-> 2, chip_layout |-> NULL, trace |-> <<"read">>]
    ELSE LET chip == layout_from_ich_descriptors(chip_desc, TRUE)
         IN IF chip.ret # 0
            THEN [ret |-> 3, chip_layout |-> NULL, trace |-> <<"read", "parse chip">>]
            ELSE IF dump = NULL
            THEN [ret |-> 0, chip_layout |-> chip.layout, trace |-> <<"read", "parse chip">>]
            ELSE LET ref == layout_from_ich_descriptors(dump.image, dump.len_ok)
                 IN IF ref.ret # 0
                    THEN [ret |-> 4, chip_layout |-> chip.layout,
                          trace |-> <<"read", "parse chip", "parse dump">>]
                    ELSE IF chip.layout.num_entries # ref.layout.num_entries
                                \/ chip.layout.entries # ref.layout.entries
                    THEN [ret |-> 5, chip_layout |-> chip.layout,
                          trace |-> <<"read", "parse chip", "parse dump", "compare">>]
                    ELSE [ret |-> 0, chip_layout |-> chip.layout,
                          trace |-> <<"read", "parse chip", "parse dump", "compare">>]

\* An access whose failed read leaves by _free_ret instead of _finalize_ret.
ifd_access_read_failure_skips_finalize(prepare_ok, chip_desc, dump) ==
    IF ~prepare_ok
    THEN [ret |-> 1, chip_layout |-> NULL, trace |-> <<"prepare_flash_access">>]
    ELSE LET r == ifd_read_parse_compare(chip_desc, dump)
         IN [ret |-> r.ret, chip_layout |-> r.chip_layout,
             trace |-> <<"prepare_flash_access">> \o r.trace
                           \o (IF r.ret = 2 THEN <<>> ELSE <<"finalize_flash_access">>)]

\* From prepare_flash_access to finalize_flash_access: a failed prepare leaves
\* by _free_ret with ret = 1; everything after it leaves through _finalize_ret.
ifd_access(prepare_ok, chip_desc, dump) ==
    IF ~prepare_ok
    THEN [ret |-> 1, chip_layout |-> NULL, trace |-> <<"prepare_flash_access">>]
    ELSE LET r == ifd_read_parse_compare(chip_desc, dump)
         IN [ret |-> r.ret, chip_layout |-> r.chip_layout,
             trace |-> <<"prepare_flash_access">> \o r.trace
                           \o <<"finalize_flash_access">>]

\* What *layout points to after *layout = chip_layout.
ChipLayoutRef(chip_layout) ==
    [ref |-> "chip_layout", num_entries |-> chip_layout.num_entries,
     entries |-> chip_layout.entries]

\* An exit that frees the chip layout whatever the result.
flashrom_layout_read_from_ifd_free_always(out, le, desc_ok, layout_ok, prepare_ok, chip_desc, dump) ==
    IF ~le
    THEN [ret |-> 6, layout |-> out, trace |-> <<>>]
    ELSE LET mallocs == (IF desc_ok THEN <<"malloc desc">> ELSE <<>>)
                            \o (IF layout_ok THEN <<"malloc chip_layout">> ELSE <<>>)
             r == IF ~desc_ok \/ ~layout_ok
                  THEN [ret |-> 1, chip_layout |-> NULL, trace |-> <<>>]
                  ELSE ifd_access(prepare_ok, chip_desc, dump)
             frees == (IF layout_ok THEN <<"free chip_layout">> ELSE <<>>)
                          \o (IF desc_ok THEN <<"free desc">> ELSE <<>>)
         IN [ret |-> r.ret,
             layout |-> IF r.ret = 0 THEN ChipLayoutRef(r.chip_layout) ELSE out,
             trace |-> mallocs \o r.trace \o frees]

\* flashrom_layout_read_from_ifd, *layout being out before the call; le is
\* whether the build defines __FLASHROM_LITTLE_ENDIAN__, desc_ok and layout_ok
\* whether the two malloc calls answer.  The result, *layout after the call and
\* the calls made, the allocations and frees among them.
flashrom_layout_read_from_ifd_fn(out, le, desc_ok, layout_ok, prepare_ok, chip_desc, dump) ==
    IF ~le
    THEN [ret |-> 6, layout |-> out, trace |-> <<>>]
    ELSE LET mallocs == (IF desc_ok THEN <<"malloc desc">> ELSE <<>>)
                            \o (IF layout_ok THEN <<"malloc chip_layout">> ELSE <<>>)
             r == IF ~desc_ok \/ ~layout_ok
                  THEN [ret |-> 1, chip_layout |-> NULL, trace |-> <<>>]
                  ELSE ifd_access(prepare_ok, chip_desc, dump)
             frees == (IF r.ret # 0 /\ layout_ok THEN <<"free chip_layout">> ELSE <<>>)
                          \o (IF desc_ok THEN <<"free desc">> ELSE <<>>)
         IN [ret |-> r.ret,
             layout |-> IF r.ret = 0 THEN ChipLayoutRef(r.chip_layout) ELSE out,
             trace |-> mallocs \o r.trace \o frees]

\* flashrom_layout_read_from_ifd: the chip holds the descriptor image chip_desc,
\* or cannot be read (NULL); the caller hands in a dump or NULL.
flashrom_layout_read_from_ifd ==
    /\ \E desc_ok \in BOOLEAN, layout_ok \in BOOLEAN, prepare_ok \in BOOLEAN :
       \E chip_desc \in (IF desc_ok /\ layout_ok /\ prepare_ok THEN DescImages ELSE {})
                            \cup {NULL} :
       \E dump \in (IF desc_ok /\ layout_ok /\ prepare_ok THEN Dumps ELSE {}) \cup {NULL} :
          LET r == flashrom_layout_read_from_ifd_fn(
                       layout, little_endian, desc_ok, layout_ok, prepare_ok, chip_desc, dump)
          IN /\ layout' = r.layout
             /\ last' = [op |-> "layout_read_from_ifd", ret |-> r.ret, trace |-> r.trace,
                         desc_ok |-> desc_ok, layout_ok |-> layout_ok,
                         prepare_ok |-> prepare_ok, chip_desc |-> chip_desc,
                         dump |-> dump, layout_before |-> layout]
    /\ UNCHANGED <<probe_vars, wp_vars, global_layout, little_endian>>

\* flashrom_layout_set: flashctx->layout = layout; the caller lets go of its
\* pointer afterwards.
flashrom_layout_set ==
    /\ layout # NULL
    /\ layout' = NULL
    /\ last' = [op |-> "layout_set"]
    /\ UNCHANGED <<probe_vars, wp_vars, global_layout, little_endian>>

NextIfd ==
    \/ flashrom_layout_read_from_ifd
    \/ flashrom_layout_set

SpecIfd == Init /\ [][NextIfd]_vars

\* ---------------------------------------------------------------- claims
\* The chip matches of a registry: the pairs (master, chip index) at which a
\* probe through that master matches.
Matches(masters) ==
    {p \in (1..Len(masters)) \X (0..(MaxChips - 1)) : p[2] \in masters[p[1]].found}

ProbeReturned == last.op = "flash_probe" /\ last.alloc_ok

\* C1: with the allocation succeeding, flashrom_flash_probe returns 0 with a
\* non-NULL *flashctx exactly when the registry holds one chip match in total;
\* the context then holds the chip and the master of that match, and
\* flashrom_flash_getsize reports total_size * 1024 of that chip.
C1_ProbeExactlyOne ==
    ProbeReturned =>
        /\ (last.ret = 0 /\ flashctx # NULL)
              <=> (Cardinality(Matches(registered_masters)) = 1)
        /\ last.ret = 0 =>
              \E p \in Matches(registered_masters) :
                  /\ flashctx.chip = flashchips[p[2]]
                  /\ flashctx.mst = p[1]
                  /\ flashrom_flash_getsize_fn(flashctx)
                        = flashchips[p[2]].total_size * 1024

\* C1 witness: the single match sits on the second master, at a chip index other
\* than the first, and the probe has returned 0.
C1_Witness ==
    /\ ProbeReturned
    /\ last.ret = 0
    /\ Len(registered_masters) = 2
    /\ registered_masters[1].found = {}
    /\ registered_masters[2].found = {1}
    /\ flashctx # NULL
    /\ flashctx.chip.id = 1

\* C2: with two or more chip matches in the registry, flashrom_flash_probe
\* returns 3, the context it allocated is freed again (allocations minus frees
\* is what it was before the call) and *flashctx is NULL.
C2_ProbeAmbiguous ==
    (ProbeReturned /\ Cardinality(Matches(registered_masters)) >= 2) =>
        /\ last.ret = 3
        /\ live_ctx = last.live_before
        /\ flashctx = NULL

\* C2 witness: one match on each of two masters, an earlier context still
\* allocated, and the probe has returned 3.
C2_Witness ==
    /\ ProbeReturned
    /\ last.ret = 3
    /\ Len(registered_masters) = 2
    /\ Cardinality(registered_masters[1].found) = 1
    /\ Cardinality(registered_masters[2].found) = 1
    /\ last.live_before = 1

\* C2 witness of the other shape is covered by the same formula: two indices of
\* one master.
C2_WitnessSameMaster ==
    /\ ProbeReturned
    /\ last.ret = 3
    /\ Len(registered_masters) = 1
    /\ Cardinality(registered_masters[1].found) = 2

\* C3: with no chip match in the registry (an empty registry included),
\* flashrom_flash_probe returns 2, frees the context it allocated and leaves
\* *flashctx NULL.
C3_ProbeNotFound ==
    (ProbeReturned /\ Matches(registered_masters) = {}) =>
        /\ last.ret = 2
        /\ live_ctx = last.live_before
        /\ flashctx = NULL

\* C3 witness: two registered masters, neither matching, and the probe has
\* returned 2.
C3_Witness ==
    /\ ProbeReturned
    /\ last.ret = 2
    /\ Len(registered_masters) = 2
    /\ Matches(registered_masters) = {}

\* C3 on the empty registry.
C3_WitnessEmpty ==
    /\ ProbeReturned
    /\ last.ret = 2
    /\ registered_masters = <<>>

WpGatedCall == last.op \in {"wp_write_cfg", "wp_read_cfg", "wp_get_available_ranges"}

\* C4: on a context whose master does not support BUS_SPI, flashrom_wp_write_cfg,
\* flashrom_wp_read_cfg and flashrom_wp_get_available_ranges each return
\* FLASHROM_WP_ERR_OTHER, make no call into the chip layer, and leave the
\* caller's configuration and range list as they were.
C4_WpBusGate ==
    (WpGatedCall /\ BUS_SPI \notin last.flash.buses_supported) =>
        /\ last.ret = FLASHROM_WP_ERR_OTHER
        /\ last.calls = <<>>
        /\ wp_cfg = last.cfg_before
        /\ wp_list = last.list_before

\* C4 witness: flashrom_wp_read_cfg on a parallel-only master, with a
\* configuration that is not the zero one, has been rejected.
C4_Witness ==
    /\ last.op = "wp_read_cfg"
    /\ last.flash.buses_supported = {BUS_PARALLEL}
    /\ last.ret = FLASHROM_WP_ERR_OTHER
    /\ wp_cfg # NULL
    /\ wp_cfg # ZeroCfg

\* The same for the other two calls.
C4_WitnessWrite ==
    /\ last.op = "wp_write_cfg"
    /\ last.flash.buses_supported = {BUS_PARALLEL}
    /\ last.ret = FLASHROM_WP_ERR_OTHER
C4_WitnessRanges ==
    /\ last.op = "wp_get_available_ranges"
    /\ last.flash.buses_supported = {BUS_PARALLEL}
    /\ last.ret = FLASHROM_WP_ERR_OTHER
    /\ wp_list # NULL

\* C5: flashrom_wp_ranges_get_range on a list of count n: with index >= n it
\* returns FLASHROM_WP_ERR_OTHER, loads nothing from list->ranges and leaves
\* *start and *len as they were; with index < n it returns 0 and writes the
\* start and the length stored at that index.
C5_RangesGetRange ==
    last.op = "wp_ranges_get_range" =>
        IF last.index >= wp_list.count
        THEN /\ last.ret = FLASHROM_WP_ERR_OTHER
             /\ last.loads = <<>>
             /\ last.start = last.start_before
             /\ last.len = last.len_before
        ELSE /\ last.ret = 0
             /\ last.start = wp_list.ranges[last.index + 1].start
             /\ last.len = wp_list.ranges[last.index + 1].len

\* C5 witness: a list of two ranges or more read at index = count, rejected.
C5_Witness ==
    /\ last.op = "wp_ranges_get_range"
    /\ wp_list.count >= 2
    /\ last.index = wp_list.count
    /\ last.ret = FLASHROM_WP_ERR_OTHER

\* The last range of such a list, read at index = count - 1, and the empty list.
C5_WitnessLast ==
    /\ last.op = "wp_ranges_get_range"
    /\ wp_list.count >= 2
    /\ last.index = wp_list.count - 1
    /\ last.ret = 0
    /\ <<last.start, last.len>> # <<last.start_before, last.len_before>>
    /\ wp_list.ranges[wp_list.count] # wp_list.ranges[1]
C5_WitnessEmpty ==
    /\ last.op = "wp_ranges_get_range"
    /\ wp_list.count = 0
    /\ last.index = 0
    /\ last.ret = FLASHROM_WP_ERR_OTHER

\* C6: flashrom_wp_get_range right after flashrom_wp_set_range(cfg, s, l) yields
\* (s, l); flashrom_wp_set_range leaves the mode, flashrom_wp_set_mode leaves
\* the range; a configuration just created has mode disabled and range (0, 0).
C6_WpCfgRoundTrip ==
    /\ (last.op = "wp_get_range" /\ last.after_set) =>
          /\ last.start = last.set.start
          /\ last.len = last.set.len
    /\ last.op = "wp_set_range" => wp_cfg.mode = last.cfg_before.mode
    /\ last.op = "wp_set_mode" =>
          /\ wp_cfg.range = last.cfg_before.range
          /\ wp_cfg.mode = last.mode
    /\ (last.op = "wp_cfg_new" /\ last.ret = FLASHROM_WP_OK) =>
          /\ wp_cfg.mode = FLASHROM_WP_MODE_DISABLED
          /\ wp_cfg.range = [start |-> 0, len |-> 0]

\* C6 witness: a range with start # len has been set on a configuration whose
\* mode is not disabled, and read back.
C6_Witness ==
    /\ last.op = "wp_get_range"
    /\ last.after_set
    /\ last.set = [start |-> MaxAddr, len |-> 1]
    /\ wp_cfg.mode = FLASHROM_WP_MODE_PERMANENT

FmapCall == last.op \in {"layout_read_fmap_from_rom", "layout_read_fmap_from_buffer"}

\* C7: an fmap population call (from rom or from buffer) with an fmap whose
\* area count added to the entry count of the shared layout exceeds
\* MAX_ROMLAYOUT fails with a non-zero result and appends nothing: the shared
\* layout is what it was before the call and *layout is not written.
C7_FmapOverflowRejected ==
    (/\ FmapCall
     /\ little_endian
     /\ last.fmap # NULL
     /\ last.global_before.num_entries + last.fmap.nareas > MAX_ROMLAYOUT) =>
        /\ last.ret # 0
        /\ global_layout = last.global_before
        /\ layout = last.layout_before

\* C7 witness: the shared layout holds entries, has room left, and an fmap with
\* more areas than that room has been rejected.
C7_Witness ==
    /\ last.op = "layout_read_fmap_from_rom"
    /\ little_endian
    /\ last.fmap # NULL
    /\ last.global_before.num_entries > 0
    /\ last.global_before.num_entries < MAX_ROMLAYOUT
    /\ last.global_before.num_entries + last.fmap.nareas > MAX_ROMLAYOUT
    /\ last.ret # 0

\* The same through flashrom_layout_read_fmap_from_buffer.
C7_WitnessBuffer ==
    /\ last.op = "layout_read_fmap_from_buffer"
    /\ little_endian
    /\ last.fmap # NULL
    /\ last.global_before.num_entries + last.fmap.nareas > MAX_ROMLAYOUT
    /\ last.ret # 0

\* C8: flashrom_layout_read_fmap_from_rom reports a failure to read the fmap
\* from the chip as 2, a value other than the 1 it reports when the regions
\* cannot be appended.
C8_FmapReadFailedIsTwo ==
    (/\ last.op = "layout_read_fmap_from_rom"
     /\ little_endian
     /\ last.fmap = NULL) => last.ret = 2

\* What flashrom_layout_read_from_ifd is to answer once it holds its memory and
\* the access: the first step that fails, in the order read, parse of the chip's
\* descriptor, parse of the dump, comparison.
IfdParsable(image, len_ok) == len_ok /\ image.sig_ok
IfdFirstFailure(chip_desc, dump) ==
    IF chip_desc = NULL THEN 2
    ELSE IF ~IfdParsable(chip_desc, TRUE) THEN 3
    ELSE IF dump = NULL THEN 0
    ELSE IF ~IfdParsable(dump.image, dump.len_ok) THEN 4
    ELSE IF ich_entries(chip_desc.flregs, 1) # ich_entries(dump.image.flregs, 1) THEN 5
    ELSE 0

InTrace(e) == \E i \in 1..Len(last.trace) : last.trace[i] = e
CountInTrace(e) == Cardinality({i \in 1..Len(last.trace) : last.trace[i] = e})
IndexInTrace(e) == CHOOSE i \in 1..Len(last.trace) : last.trace[i] = e

IfdEntered ==
    /\ last.op = "layout_read_from_ifd"
    /\ little_endian
    /\ last.desc_ok
    /\ last.layout_ok
    /\ last.prepare_ok

\* C9: on a little-endian host, with the allocations and the access acquired,
\* the result of flashrom_layout_read_from_ifd is that of the first failing
\* step in the order read (2), parse of the chip's descriptor (3), parse of the
\* dump (4), comparison (5), and 0 if none fails; no step after the failing one
\* is performed; without a dump it is neither parsed nor compared, and the
\* result is neither 4 nor 5.
C9_IfdFirstFailureDecides ==
    IfdEntered =>
        /\ last.ret = IfdFirstFailure(last.chip_desc, last.dump)
        /\ last.ret = 2 => ~InTrace("parse chip") /\ ~InTrace("parse dump")
                               /\ ~InTrace("compare")
        /\ last.ret = 3 => ~InTrace("parse dump") /\ ~InTrace("compare")
        /\ last.ret = 4 => ~InTrace("compare")
        /\ last.dump = NULL =>
              /\ ~InTrace("parse dump")
              /\ ~InTrace("compare")
              /\ last.ret \notin {4, 5}

\* C9 witness: neither the chip's descriptor nor the dump can be parsed, and
\* the call has answered 3.
C9_Witness ==
    /\ IfdEntered
    /\ last.chip_desc # NULL
    /\ ~last.chip_desc.sig_ok
    /\ last.dump # NULL
    /\ ~last.dump.image.sig_ok
    /\ last.ret = 3

\* The other outcomes of the order: a mismatch of two parsable descriptors with
\* as many entries, and a dump that cannot be parsed.
C9_WitnessMismatch ==
    /\ IfdEntered
    /\ last.ret = 5
    /\ Len(ich_entries(last.chip_desc.flregs, 1)) = Len(ich_entries(last.dump.image.flregs, 1))
C9_WitnessDump ==
    /\ IfdEntered
    /\ last.ret = 4

\* C10: in flashrom_layout_read_from_ifd the chip is read only after a
\* successful prepare_flash_access; a successful prepare_flash_access is
\* followed by exactly one finalize_flash_access before the return, whatever
\* the result (0, 2, 3, 4, 5); finalize_flash_access is not called when an
\* allocation or prepare_flash_access itself failed.
C10_IfdAccessBracketed ==
    last.op = "layout_read_from_ifd" =>
        /\ InTrace("read") =>
              /\ last.prepare_ok
              /\ InTrace("prepare_flash_access")
              /\ IndexInTrace("prepare_flash_access") < IndexInTrace("read")
        /\ (InTrace("prepare_flash_access") /\ last.prepare_ok) =>
              /\ CountInTrace("finalize_flash_access") = 1
              /\ CountInTrace("prepare_flash_access") = 1
              /\ IndexInTrace("prepare_flash_access") < IndexInTrace("finalize_flash_access")
              /\ InTrace("read") =>
                    IndexInTrace("read") < IndexInTrace("finalize_flash_access")
              /\ last.ret \in {0, 2, 3, 4, 5}
        /\ IfdEntered => InTrace("prepare_flash_access")
        /\ (~last.desc_ok \/ ~last.layout_ok) =>
              /\ ~InTrace("prepare_flash_access")
              /\ ~InTrace("finalize_flash_access")
        /\ ~last.prepare_ok => ~InTrace("finalize_flash_access")

\* C10 witness: the read has failed after a successful prepare_flash_access,
\* and finalize_flash_access is in the trace of the call.
C10_Witness ==
    /\ IfdEntered
    /\ last.ret = 2
    /\ InTrace("finalize_flash_access")

\* The paths without the access: a failed prepare_flash_access, a failed
\* allocation.
C10_WitnessPrepareFailed ==
    /\ last.op = "layout_read_from_ifd"
    /\ little_endian
    /\ last.desc_ok /\ last.layout_ok /\ ~last.prepare_ok
    /\ last.ret = 1
C10_WitnessAllocFailed ==
    /\ last.op = "layout_read_from_ifd"
    /\ little_endian
    /\ ~last.layout_ok
    /\ last.ret = 1

\* The entries a layout counts: entries[0 .. num_entries-1] of the code.
CountedEntries(l) == [i \in 1..l.num_entries |-> l.entries[i]]

\* C11: an fmap population call that returns a failure, whatever the reason (a
\* region name that cannot be allocated after some areas were appended
\* included), leaves the entry count of the shared layout and the entries it
\* counts as they were before the call.
C11_FmapCallAtomic ==
    (FmapCall /\ last.ret # 0) =>
        /\ global_layout.num_entries = last.global_before.num_entries
        /\ CountedEntries(global_layout) = CountedEntries(last.global_before)

\* C12: whatever fmap population calls were made into the shared layout (the
\* same fmap read twice, an fmap with two areas of one name), no two of the
\* entries the layout counts have the same name.
C12_RegionNamesUnique ==
    \A i, j \in 1..global_layout.num_entries :
        i # j => global_layout.entries[i].name # global_layout.entries[j].name

\* An fmap population call that nothing keeps from succeeding: a little-endian
\* build, an fmap that is read, room for all its areas, every name allocated.
FmapCallCanSucceed ==
    /\ FmapCall
    /\ little_endian
    /\ last.fmap # NULL
    /\ last.fail_at = 0
    /\ last.global_before.num_entries + last.fmap.nareas <= MAX_ROMLAYOUT

\* name is what strndup makes of the name field of an area: the bytes before
\* the first NUL, FMAP_STRLEN of them at most.
IsNameOfArea(name, area) ==
    /\ name # NULL
    /\ Len(name.str) <= FMAP_STRLEN
    /\ \A k \in 1..Len(name.str) : name.str[k] = area.name[k] /\ name.str[k] # 0
    /\ Len(name.str) < FMAP_STRLEN => area.name[Len(name.str) + 1] = 0

\* C13: an fmap population call that succeeds on an fmap of n areas returns 0,
\* sets *layout to the one global layout, and raises its entry count by n: the
\* areas are appended in the order of the fmap after the entries already there,
\* each with start = offset, end = offset + size - 1 (in the unsigned
\* arithmetic of the offsets), included = false and a name of FMAP_STRLEN
\* characters at most; the entries of before the call are unchanged.
C13_FmapAppendsInOrder ==
    /\ FmapCallCanSucceed => last.ret = 0
    /\ (FmapCall /\ last.ret = 0) =>
          /\ FmapCallCanSucceed
          /\ layout = [ref |-> "global_layout"]
          /\ global_layout.num_entries =
                 last.global_before.num_entries + last.fmap.nareas
          /\ \A i \in 1..last.fmap.nareas :
                LET area == last.fmap.areas[i]
                    entry == global_layout.entries[last.global_before.num_entries + i]
                IN /\ entry.start = area.offset
                   /\ entry.end = (area.offset + area.size - 1) % ChipoffModulus
                   /\ entry.included = FALSE
                   /\ IsNameOfArea(entry.name, area)
          /\ \A j \in 1..last.global_before.num_entries :
                global_layout.entries[j] = last.global_before.entries[j]

\* C13 witness: two different areas have been appended to a layout that held
\* an entry, one of them with a name that fills the name field.
C13_Witness ==
    /\ FmapCall
    /\ last.ret = 0
    /\ last.global_before.num_entries > 0
    /\ last.fmap.nareas = 2
    /\ last.fmap.areas[1] # last.fmap.areas[2]
    /\ global_layout.num_entries = last.global_before.num_entries + 2
    /\ \E i \in 1..2 :
          Len(global_layout.entries[last.global_before.num_entries + i].name.str)
              = FMAP_STRLEN

\* An area of size 0 at offset 0 has been appended: its end wraps around.
C13_WitnessWrap ==
    /\ FmapCall
    /\ last.ret = 0
    /\ last.fmap.nareas > 0
    /\ last.fmap.areas[1].offset + last.fmap.areas[1].size = 0
    /\ global_layout.entries[last.global_before.num_entries + 1].end
           = ChipoffModulus - 1

\* C14: in every state that successful and failed fmap population calls lead
\* to, the shared layout counts MAX_ROMLAYOUT entries at most, and every slot
\* flashrom_layout_parse_fmap has written has an index below MAX_ROMLAYOUT.
C14_LayoutWithinBounds ==
    /\ global_layout.num_entries \in 0..MAX_ROMLAYOUT
    /\ FmapCall =>
          \A k \in 1..Len(last.slots) : last.slots[k] \in 0..(MAX_ROMLAYOUT - 1)

\* C14 witness: a call has filled the layout to its last slot.
C14_Witness ==
    /\ FmapCall
    /\ last.ret = 0
    /\ last.global_before.num_entries > 0
    /\ global_layout.num_entries = MAX_ROMLAYOUT
    /\ Len(last.slots) > 0
    /\ last.slots[Len(last.slots)] = MAX_ROMLAYOUT - 1

\* A failed call has written the last slot without counting it.
C14_WitnessFailed ==
    /\ FmapCall
    /\ last.ret # 0
    /\ Len(last.slots) > 0
    /\ last.slots[Len(last.slots)] = MAX_ROMLAYOUT - 1
    /\ global_layout.num_entries = MAX_ROMLAYOUT - 1

\* C15: flashrom_layout_read_from_ifd leaks nothing and hands out a layout on
\* success only: on every exit the descriptor buffer it allocated is freed, as
\* the last thing done with it; on every non-zero result the chip layout it
\* allocated is freed and *layout is not written; on the result 0 *layout
\* refers to the chip layout, which is not freed.
C15_IfdFreesAndHandsOut ==
    last.op = "layout_read_from_ifd" =>
        /\ CountInTrace("malloc desc") \in {0, 1}
        /\ CountInTrace("free desc") = CountInTrace("malloc desc")
        /\ InTrace("malloc desc") => last.trace[Len(last.trace)] = "free desc"
        /\ CountInTrace("malloc chip_layout") \in {0, 1}
        /\ last.ret # 0 =>
              /\ CountInTrace("free chip_layout") = CountInTrace("malloc chip_layout")
              /\ InTrace("free chip_layout") =>
                    /\ IndexInTrace("malloc chip_layout") < IndexInTrace("free chip_layout")
                    /\ InTrace("parse chip") =>
                          IndexInTrace("parse chip") < IndexInTrace("free chip_layout")
              /\ layout = last.layout_before
        /\ last.ret = 0 =>
              /\ CountInTrace("malloc chip_layout") = 1
              /\ ~InTrace("free chip_layout")
              /\ layout # NULL
              /\ layout.ref = "chip_layout"

\* C15 witness: a call has failed after its two allocations and the access,
\* while the caller held a layout of an earlier call: both allocations have
\* been freed and the caller's pointer is what it was.
C15_Witness ==
    /\ IfdEntered
    /\ last.ret \in {2, 3, 4, 5}
    /\ InTrace("malloc desc") /\ InTrace("free desc")
    /\ InTrace("malloc chip_layout") /\ InTrace("free chip_layout")
    /\ last.layout_before # NULL
    /\ layout = last.layout_before

\* The call has succeeded: the chip layout is handed out and not freed.
C15_WitnessSuccess ==
    /\ IfdEntered
    /\ last.ret = 0
    /\ InTrace("malloc chip_layout") /\ ~InTrace("free chip_layout")
    /\ InTrace("free desc")
    /\ layout # NULL

\* One of the two allocations has failed: the other one is freed.
C15_WitnessAllocFailed ==
    /\ last.op = "layout_read_from_ifd"
    /\ little_endian
    /\ last.ret = 1
    /\ \/ last.desc_ok /\ ~last.layout_ok /\ InTrace("free desc")
       \/ ~last.desc_ok /\ last.layout_ok /\ InTrace("free chip_layout")

====
